---- MODULE Spec2Model ----
(***************************************************************************)
(* Model of the Graal commit pipeline (graal/graal.py) and of the CoCom    *)
(* per-file analyzer composition (graal/backends/core/cocom.py).           *)
(*                                                                         *)
(* One run of Graal.fetch_items is a state machine: the generator's        *)
(* position is pc, the working tree on disk is wtExists/head/wtFiles, the  *)
(* registration of the working tree in the clone is registered.  The       *)
(* outcomes of the git commands, of the overridable hooks and of the two   *)
(* external analyzers (Cloc, Lizard) are inputs chosen with \E.            *)
(* Paths are sequences of one-character strings, so that split(".") and    *)
(* os.path.join are computed and not assumed.                              *)
(***************************************************************************)
EXTENDS Integers, Sequences, FiniteSets, TLC

\* ------------------------------------------------------------------ bounds
MaxCommits == 3
MaxFiles == 2
MaxCoFails == 2
RecursionLimit == 2
MaxPathLen == 3

\* ------------------------------------------------------------- path algebra
Hashes == <<"c1", "c2", "c3", "c4", "c5">>

DOT == "."
SEP == "/"

\* The worktree directory of the run (absolute, like DEFAULT_WORKTREE_PATH
\* joined with the last component of gitpath).
WorktreePath == <<"/", "w">>

\* Files a commit's tree may hold, relative to the repository root.
RelPaths ==
    { <<"a", ".", "p", "y">>,
      <<"i", ".", "p", "n", "g">>,
      <<".", "h">> }

\* A tree in file-walk order: no file twice, at most MaxFiles files.
Trees ==
    UNION { { t \in [1..n -> RelPaths] :
                \A a, b \in 1..n : a # b => t[a] # t[b] } : n \in 0..MaxFiles }

\* The commit source's result: commits in the order produced, ids distinct;
\* the ids are opaque, so each commit is named after its place in the source.
CommitSeqs == { [k \in 1..n |-> Hashes[k]] : n \in 0..MaxCommits }

ALLOWED_EXTENSIONS ==
    { <<"j", "a", "v", "a">>, <<"p", "y">>, <<"p", "h", "p">>,
      <<"s", "c", "a", "l", "a">>, <<"j", "s">>, <<"r", "b">>,
      <<"c", "s">>, <<"c", "p", "p">>, <<"c">> }

\* str.split(sep): the pieces between the separators, in order.
RECURSIVE split(_, _)
split(s, sep) ==
    IF \A k \in 1..Len(s) : s[k] # sep
    THEN <<s>>
    ELSE LET k == CHOOSE j \in 1..Len(s) :
                     s[j] = sep /\ \A m \in 1..(j - 1) : s[m] # sep
         IN  <<SubSeq(s, 1, k - 1)>> \o split(SubSeq(s, k + 1, Len(s)), sep)

\* GraalRepository.extension: file_path.split(".")[-1]
extension(file_path) ==
    LET parts == split(file_path, DOT) IN parts[Len(parts)]

\* os.path.join(a, b) for POSIX paths
os_path_join(a, b) ==
    IF Len(b) > 0 /\ b[1] = SEP THEN b
    ELSE IF Len(a) = 0 \/ a[Len(a)] = SEP THEN a \o b
    ELSE a \o <<SEP>> \o b

\* glob: neither '*' nor '**' matches a name that begins with a dot, so a
\* file is left out when a component of its path begins with a dot.
IsHidden(rel) ==
    LET parts == split(rel, SEP)
    IN  \E k \in 1..Len(parts) : Len(parts[k]) > 0 /\ parts[k][1] = DOT

GlobMatches(rel) == ~IsHidden(rel)

files_Relative(dir_path, exists, tree) ==
    IF Len(dir_path) = 0 \/ ~exists THEN <<>>
    ELSE SelectSeq(tree, GlobMatches)

\* GraalRepository.files: glob(dir_path + '/**/*') keeps the directory prefix.
files(dir_path, exists, tree) ==
    IF Len(dir_path) = 0 \/ ~exists THEN <<>>
    ELSE LET seen == SelectSeq(tree, GlobMatches)
         IN  [k \in 1..Len(seen) |-> dir_path \o <<SEP>> \o seen[k]]

\* ---------------------------------------------------------------- analyzers
EmptyDict == [k \in {} |-> 0]

\* dict[key] = value
DictSet(d, key, value) ==
    [k \in DOMAIN d \cup {key} |-> IF k = key THEN value ELSE d[k]]

\* What Cloc.analyze may answer for a file: a result, or a failure to read it.
ClocOutcomes ==
    { [ok |-> TRUE, res |-> [blanks |-> 1, comments |-> 2, loc |-> 3]],
      [ok |-> FALSE, res |-> EmptyDict] }

\* What Lizard.analyze may answer: a result (one variant carries blank and
\* comment counts of its own), or a failure to parse the file.
LizardOutcomes ==
    { [ok |-> TRUE,
       res |-> [loc |-> 4, ccn |-> 5, tokens |-> 6, avg_ccn |-> 5,
                avg_loc |-> 4, avg_tokens |-> 6, funs |-> 1]],
      [ok |-> TRUE,
       res |-> [loc |-> 7, ccn |-> 5, tokens |-> 6, avg_ccn |-> 5,
                avg_loc |-> 7, avg_tokens |-> 6, funs |-> 1,
                blanks |-> 8, comments |-> 9]],
      [ok |-> FALSE, res |-> EmptyDict] }

analyze_KeepDeepBlanks(file_path, cl, lz) ==
    IF ~cl.ok
    THEN [raised |-> "AnalysisIOError", deep |-> FALSE, out |-> EmptyDict]
    ELSE IF extension(file_path) \notin ALLOWED_EXTENSIONS
    THEN [raised |-> "none", deep |-> FALSE, out |-> cl.res]
    ELSE IF ~lz.ok
    THEN [raised |-> "DeepAnalysisError", deep |-> TRUE, out |-> EmptyDict]
    ELSE [raised |-> "none", deep |-> TRUE,
          out |-> IF "blanks" \in DOMAIN lz.res
                  THEN DictSet(lz.res, "comments", cl.res["comments"])
                  ELSE DictSet(DictSet(lz.res, "blanks", cl.res["blanks"]),
                               "comments", cl.res["comments"])]

analyze_AlwaysDeep(file_path, cl, lz) ==
    IF ~cl.ok
    THEN [raised |-> "AnalysisIOError", deep |-> FALSE, out |-> EmptyDict]
    ELSE IF ~lz.ok
    THEN [raised |-> "DeepAnalysisError", deep |-> TRUE, out |-> EmptyDict]
    ELSE [raised |-> "none", deep |-> TRUE,
          out |-> DictSet(DictSet(lz.res, "blanks", cl.res["blanks"]),
                          "comments", cl.res["comments"])]

\* FileAnalyzer.analyze(file_path), given what Cloc and Lizard answer for the
\* file.  raised: the exception that leaves the method ("none": it returns);
\* deep: whether Lizard was invoked; out: the dict returned.
analyze(file_path, cl, lz) ==
    IF ~cl.ok
    THEN [raised |-> "AnalysisIOError", deep |-> FALSE, out |-> EmptyDict]
    ELSE IF extension(file_path) \notin ALLOWED_EXTENSIONS
    THEN [raised |-> "none", deep |-> FALSE, out |-> cl.res]
    ELSE IF ~lz.ok
    THEN [raised |-> "DeepAnalysisError", deep |-> TRUE, out |-> EmptyDict]
    ELSE [raised |-> "none", deep |-> TRUE,
          out |-> DictSet(DictSet(lz.res, "blanks", cl.res["blanks"]),
                          "comments", cl.res["comments"])]

\* str.endswith
endswith(s, suffix) ==
    /\ Len(suffix) <= Len(s)
    /\ SubSeq(s, Len(s) - Len(suffix) + 1, Len(s)) = suffix

\* The entry of the call log for one FileAnalyzer.analyze call: the path, what
\* Cloc answers and what Lizard answers (or would answer) for the file, and
\* what the call did.
CallEntry(file_path, cl, lz, r) ==
    [path |-> file_path, cloc |-> cl, liz |-> lz,
     deep |-> r.deep, raised |-> r.raised, out |-> r.out]

\* CoCom._analyze from file k on: walks fs in order, skips the files outside
\* a non-empty scope, analyzes the others and stops at the first exception.
RECURSIVE AnalyzeFrom(_, _, _, _, _, _)
AnalyzeFrom(fs, paths, worktreepath, cls, lzs, k) ==
    IF k > Len(fs)
    THEN [raised |-> "none", analysis |-> <<>>, calls |-> <<>>]
    ELSE
      LET f == fs[k]
          rest == AnalyzeFrom(fs, paths, worktreepath, cls, lzs, k + 1)
      IN  IF Len(paths) > 0 /\ ~\E j \in 1..Len(paths) : endswith(f, paths[j])
          THEN rest
          ELSE
            LET file_path == os_path_join(worktreepath, f)
                r == analyze(file_path, cls[k], lzs[k])
                entry == CallEntry(file_path, cls[k], lzs[k], r)
            IN  IF r.raised # "none"
                THEN [raised |-> r.raised, analysis |-> <<>>, calls |-> <<entry>>]
                ELSE [raised |-> rest.raised,
                      analysis |-> IF rest.raised # "none" THEN <<>>
                                   ELSE <<DictSet(r.out, "file_path", f)>>
                                        \o rest.analysis,
                      calls |-> <<entry>> \o rest.calls]

Reverse(s) == [k \in 1..Len(s) |-> s[Len(s) + 1 - k]]

CoCom_analyze_Reversed(fs, paths, worktreepath, cls, lzs) ==
    LET r == AnalyzeFrom(fs, paths, worktreepath, cls, lzs, 1)
    IN  [r EXCEPT !.analysis = Reverse(r.analysis)]

\* CoCom._analyze(commit, paths): the analysis list, in the order of the walk.
CoCom_analyze(fs, paths, worktreepath, cls, lzs) ==
    AnalyzeFrom(fs, paths, worktreepath, cls, lzs, 1)

CoCom_post_KeepRefs(c) ==
    [k \in DOMAIN c \ {"Author", "Commit", "files", "parents"} |-> c[k]]

\* CoCom._post: the commit without its raw blocks.
CoCom_post(c) ==
    [k \in DOMAIN c \ {"Author", "Commit", "files", "parents", "refs"} |-> c[k]]

\* The item the commit source produces for a commit.
CommitItem(hash) ==
    [commit |-> hash, Author |-> "author", Commit |-> "committer",
     files |-> "files", parents |-> "parents", refs |-> "refs",
     message |-> "message"]

NoCommit == [commit |-> "none"]

\* paths=None: no scope.
NoPaths == <<>>

\* The scope fetch_items hands to its hooks: `self._filter_commit(commit)` and
\* `self._analyze(commit)` pass none, the hooks' `paths` keeps its default.
HookPaths == NoPaths

\* -------------------------------------------------------------------- state
VARIABLES
    commits,      \* what the commit source yields, in order
    i,            \* how many commits the loop has taken from the source
    commit,       \* the loop variable: the commit item being processed
    pc,           \* position of the generator fetch_items
    errKind,      \* the exception that left the generator ("none": no one)
    errStep,      \* the step that raised it
    gitpath,      \* what is at gitpath: "absent", "dir" or "file"
    wtExists,     \* the worktree directory exists on disk
    registered,   \* the clone holds a registration of the working tree
    head,         \* what the working tree is checked out at
    wtFiles,      \* the files of the working tree, in file-walk order
    depth,        \* recursion depth of GraalRepository.worktree
    coFails,      \* how many attempts in a row 'git checkout' fails, this commit
    calls,        \* log of the FileAnalyzer.analyze calls of this commit
    emitted,      \* ids of the records the consumer has received, in order
    icommits,     \* the counter of fetch_items
    pruneCalls,   \* history: calls of prune()
    setupPrunes,  \* history: those made by worktree() while retrying
    wtCreated,    \* history: successful 'git worktree add'
    skipped,      \* history: ids the filter returned true for
    coAttempted,  \* history: ids checkout() was called with
    analysed,     \* history: ids the analysis hook was called with
    entry,        \* the fetch method the caller invoked
    scope,        \* the `paths` argument the caller gave (NoPaths: none)
    cleanup,      \* the caller's own prune() after the run: made, git's answer, exception
    stale,        \* history: the worktree path existed when the run started
    runs,         \* two pipeline runs side by side: each run's clone and position
    wt            \* the worktree base directory they share: what is at each path

vars == <<commits, i, commit, pc, errKind, errStep, gitpath, wtExists,
          registered, head, wtFiles, depth, coFails, calls, emitted, icommits,
          pruneCalls, setupPrunes, wtCreated, skipped, coAttempted, analysed,
          entry, scope, cleanup, stale, runs, wt>>

disk == <<wtExists, registered, head, wtFiles>>
hist == <<pruneCalls, setupPrunes, wtCreated, skipped, coAttempted, analysed>>
loopv == <<i, commit, coFails, calls, emitted, icommits>>
call == <<commits, entry, scope, stale>>
pair == <<runs, wt>>

\* The runs that share a worktree base directory.
Runs == {1, 2}

\* Where their clones are: two of them have the same final component.
GitPaths ==
    { <<"/", "a", "/", "r">>,
      <<"/", "b", "/", "r">>,
      <<"/", "b", "/", "q">> }

\* The worktree base directory, like DEFAULT_WORKTREE_PATH.
WorktreeBase == <<"/", "t", "/">>

\* os.path.split(p)[1]: what follows the last separator.
os_path_split_tail(p) ==
    LET parts == split(p, SEP) IN parts[Len(parts)]

\* Graal.__init__: os.path.join(worktreepath, os.path.split(gitpath)[1])
Graal_worktreepath(base, git_path) ==
    os_path_join(base, os_path_split_tail(git_path))

WtPaths == { Graal_worktreepath(WorktreeBase, g) : g \in GitPaths }

\* Nothing at a path; owner: the run whose 'git worktree add' made the
\* directory (0: none).
Absent == [owner |-> 0, head |-> "none"]

\* No two runs side by side.
NoPair ==
    /\ runs = [r \in Runs |-> [gitpath |-> <<>>, pc |-> "off", k |-> 0,
                                head |-> "none"]]
    /\ wt = [p \in WtPaths |-> Absent]

\* What a directory left at the worktree path by something earlier holds.
StaleTree == << <<"a", ".", "p", "y">> >>

\* The scopes a caller gives: none, or the suffix of one file.
Scopes == { NoPaths, << <<"a", ".", "p", "y">> >> }

NoCleanup == [called |-> FALSE, git |-> TRUE, raised |-> "none"]

Init ==
    /\ commits \in CommitSeqs
    /\ i = 0
    /\ commit = NoCommit
    /\ NoPair
    /\ pc = "fetch"
    /\ entry \in {"Graal.fetch", "CoCom.fetch"}
    /\ scope \in (IF entry = "CoCom.fetch" THEN Scopes ELSE {NoPaths})
    /\ cleanup = NoCleanup
    /\ errKind = "none"
    /\ errStep = "none"
    /\ gitpath \in {"absent", "dir", "file"}
    /\ wtExists \in BOOLEAN
    /\ registered \in BOOLEAN
    /\ stale = wtExists
    /\ head = (IF wtExists THEN "stale" ELSE "none")
    /\ wtFiles = (IF wtExists THEN StaleTree ELSE <<>>)
    /\ depth = 0
    /\ coFails = 0
    /\ calls = <<>>
    /\ emitted = <<>>
    /\ icommits = 0
    /\ pruneCalls = 0
    /\ setupPrunes = 0
    /\ wtCreated = 0
    /\ skipped = {}
    /\ coAttempted = {}
    /\ analysed = {}

\* An exception leaves the generator: the run is over, the consumer sees it.
Raise(kind, step) ==
    /\ pc' = "raised"
    /\ errKind' = kind
    /\ errStep' = step

\* `except Exception as e: logger.error(...); raise e` of the commit loop.
ExceptHandler(kind, step) == Raise(kind, step)

delete_Keep(exists) == exists

\* GraalRepository.delete(target_path): whether the path exists afterwards.
delete(exists) == IF ~exists THEN exists ELSE FALSE

delete_raised_NoGuard(exists) ==
    IF exists THEN "none" ELSE "FileNotFoundError"

\* GraalRepository.delete(target_path): the exception that leaves it.  A path
\* that does not exist is logged and left alone; rmtree and remove of a path
\* that exists are taken to succeed.
delete_raised(exists) == "none"

\* The exception that leaves prune() when 'git worktree prune' answers ok.
prune_raised(ok) ==
    IF delete_raised(wtExists) # "none" THEN delete_raised(wtExists)
    ELSE IF ok THEN "none" ELSE "RepositoryError"

\* 'git worktree prune' drops the registration of a working tree whose
\* directory is gone; ran: the command was run and succeeded.
prune_registered(ran, gone, old) == IF ran /\ gone THEN FALSE ELSE old

\* GraalRepository.prune: delete the directory, then 'git worktree prune'.
prune(ok) ==
    /\ wtExists' = delete(wtExists)
    /\ wtFiles' = IF wtExists' THEN wtFiles ELSE <<>>
    /\ head' = IF wtExists' THEN head ELSE "none"
    /\ registered' = prune_registered(prune_raised(ok) = "none", ~wtExists',
                                      registered)
    /\ pruneCalls' = pruneCalls + 1

\* The keyword parameters of Graal.fetch.
GraalFetchParams == {"category", "from_date", "to_date", "branches", "latest_items"}

\* The keyword arguments each fetch method hands to Graal.fetch: CoCom.fetch
\* forwards its own `paths`, whatever its value.
FetchKeywords(method) ==
    IF method = "CoCom.fetch"
    THEN {"paths", "from_date", "to_date", "branches", "latest_items"}
    ELSE {"from_date", "to_date", "branches", "latest_items"}

\* The call of fetch: Python rejects a keyword the callee does not declare
\* before the body of Graal.fetch runs.
Fetch ==
    /\ pc = "fetch"
    /\ IF FetchKeywords(entry) \subseteq GraalFetchParams
       THEN /\ pc' = "start"
            /\ UNCHANGED <<errKind, errStep>>
       ELSE Raise("TypeError", "fetch")
    /\ UNCHANGED <<pair, call, cleanup, gitpath, disk, depth, loopv, hist>>

rmtree_Skip == UNCHANGED <<wtExists, wtFiles, head>>

\* `if GraalRepository.exists(self.worktreepath): shutil.rmtree(...)`: whatever
\* is at the worktree path is gone afterwards.
rmtree ==
    /\ wtExists' = FALSE
    /\ wtFiles' = <<>>
    /\ head' = "none"

\* Graal.__create_graal_repository up to the call of repo.worktree.
CreateGraalRepository ==
    /\ pc = "start"
    /\ \/ /\ gitpath = "absent"          \* GraalRepository.clone fails
          /\ Raise("RepositoryError", "create")
          /\ UNCHANGED <<gitpath, disk>>
       \/ /\ gitpath \in {"absent", "dir"}
          /\ gitpath' = "dir"
          /\ rmtree
          /\ pc' = "worktree"
          /\ UNCHANGED <<errKind, errStep, registered>>
       \/ /\ gitpath = "file"            \* neither branch binds repo
          /\ rmtree
          /\ Raise("UnboundLocalError", "create")
          /\ UNCHANGED <<gitpath, registered>>
    /\ UNCHANGED <<pair, call, cleanup, depth, loopv, hist>>

\* GraalRepository.worktree: one 'git worktree add'.
WorktreeAdd ==
    /\ pc = "worktree"
    /\ depth < RecursionLimit
    /\ \E ok \in BOOLEAN, t \in Trees :
         IF ok
         THEN /\ wtExists' = TRUE
              /\ registered' = TRUE
              /\ head' = "master"
              /\ wtFiles' = t
              /\ wtCreated' = wtCreated + 1
              /\ pc' = "next"
         ELSE /\ pc' = "wt_prune"
              /\ UNCHANGED <<disk, wtCreated>>
    /\ UNCHANGED <<pair, call, cleanup, errKind, errStep, gitpath, depth, loopv,
                   pruneCalls, setupPrunes, skipped, coAttempted, analysed>>

\* The interpreter's recursion limit ends the retries of worktree.
WorktreeRecursionLimit ==
    /\ pc = "worktree"
    /\ depth = RecursionLimit
    /\ \E kind \in {"RecursionError", "RepositoryError"} : Raise(kind, "create")
    /\ UNCHANGED <<pair, call, cleanup, gitpath, disk, depth, loopv, hist>>

\* GraalRepository.worktree after a failed add: prune, then call itself.
WorktreePrune ==
    /\ pc = "wt_prune"
    /\ \E ok \in BOOLEAN :
         /\ prune(ok)
         /\ IF prune_raised(ok) = "none"
            THEN /\ depth' = depth + 1
                 /\ pc' = "worktree"
                 /\ UNCHANGED <<errKind, errStep>>
            ELSE /\ Raise(prune_raised(ok), "create")
                 /\ UNCHANGED depth
    /\ setupPrunes' = setupPrunes + 1
    /\ UNCHANGED <<pair, call, cleanup, gitpath, loopv, wtCreated, skipped, coAttempted,
                   analysed>>

\* `for commit in commits:` takes the next commit.
NextCommit ==
    /\ pc = "next"
    /\ i < Len(commits)
    /\ i' = i + 1
    /\ commit' = CommitItem(commits[i + 1])
    /\ calls' = <<>>
    /\ coFails' = 0
    /\ pc' = "filter"
    /\ UNCHANGED <<pair, call, cleanup, errKind, errStep, gitpath, disk, depth, emitted,
                   icommits, hist>>

\* `for commit in commits:` finds the source exhausted.
Exhausted ==
    /\ pc = "next"
    /\ i = Len(commits)
    /\ pc' = "final_prune"
    /\ UNCHANGED <<pair, call, cleanup, errKind, errStep, gitpath, disk, depth, loopv, hist>>

\* The argument list of the filter hook's call: `self._filter_commit(commit)`.
FilterCallArgs == <<commit>>

AfterFilter_Ignore(r) == "checkout"

\* `if self._filter_commit(commit): continue`
AfterFilter(r) == IF r THEN "next" ELSE "checkout"

\* The filter hook: returns true or false, or raises.
FilterCommit ==
    /\ pc = "filter"
    /\ \/ \E r \in BOOLEAN :
            /\ pc' = AfterFilter(r)
            /\ skipped' = IF r THEN skipped \cup {commit["commit"]} ELSE skipped
            /\ UNCHANGED <<errKind, errStep>>
       \/ /\ ExceptHandler("HookError", "filter")
          /\ UNCHANGED skipped
    /\ UNCHANGED <<pair, call, cleanup, gitpath, disk, depth, loopv, pruneCalls,
                   setupPrunes, wtCreated, coAttempted, analysed>>

checkout_head_Stale(hash, old) == old

\* What a successful 'git checkout hash' leaves the working tree at.
checkout_head(hash, old) == hash

\* GraalRepository.checkout: one 'git checkout', no second attempt.
Checkout ==
    /\ pc = "checkout"
    /\ coAttempted' = coAttempted \cup {commit["commit"]}
    /\ \E n \in 0..MaxCoFails, t \in Trees :
         /\ coFails' = n
         /\ IF n = 0
            THEN /\ head' = checkout_head(commit["commit"], head)
                 /\ wtFiles' = t
                 /\ pc' = "analyze"
                 /\ UNCHANGED <<errKind, errStep>>
            ELSE /\ ExceptHandler("RepositoryError", "checkout")
                 /\ UNCHANGED <<head, wtFiles>>
    /\ UNCHANGED <<pair, call, cleanup, i, commit, gitpath, wtExists, registered, depth,
                   calls, emitted, icommits, pruneCalls, setupPrunes, wtCreated,
                   skipped, analysed>>

\* `commit['analysis'] = self._analyze(commit)`
Analyze ==
    /\ pc = "analyze"
    /\ analysed' = analysed \cup {commit["commit"]}
    /\ LET fs == files(WorktreePath, wtExists, wtFiles) IN
       \E cls \in [1..Len(fs) -> ClocOutcomes], lzs \in [1..Len(fs) -> LizardOutcomes] :
         LET r == CoCom_analyze(fs, HookPaths, WorktreePath, cls, lzs) IN
         /\ calls' = r.calls
         /\ IF r.raised = "none"
            THEN /\ commit' = DictSet(commit, "analysis", r.analysis)
                 /\ pc' = "post"
                 /\ UNCHANGED <<errKind, errStep>>
            ELSE /\ ExceptHandler(r.raised, "analyze")
                 /\ UNCHANGED commit
    /\ UNCHANGED <<pair, call, cleanup, i, gitpath, disk, depth, coFails, emitted, icommits,
                   pruneCalls, setupPrunes, wtCreated, skipped, coAttempted>>

\* `commit = self._post(commit)`: the hook returns the item, or raises.
Post ==
    /\ pc = "post"
    /\ \/ /\ commit' = CoCom_post(commit)
          /\ pc' = "yield"
          /\ UNCHANGED <<errKind, errStep>>
       \/ /\ ExceptHandler("HookError", "post")
          /\ UNCHANGED commit
    /\ UNCHANGED <<pair, call, cleanup, i, gitpath, disk, depth, coFails, calls, emitted,
                   icommits, hist>>

Emit_Front(records, item) == <<item["commit"]>> \o records

Emit_DropOlder(records, item) == <<item["commit"]>>

\* What the consumer holds after `yield commit`.
Emit(records, item) == Append(records, item["commit"])

\* `yield commit`: the record goes to the consumer, the generator is suspended.
Yield ==
    /\ pc = "yield"
    /\ emitted' = Emit(emitted, commit)
    /\ pc' = "suspended"
    /\ UNCHANGED <<pair, call, cleanup, i, commit, errKind, errStep, gitpath, disk, depth,
                   coFails, calls, icommits, hist>>

\* The consumer asks for the next record: `icommits += 1`, back to the loop.
Resume ==
    /\ pc = "suspended"
    /\ icommits' = icommits + 1
    /\ pc' = "next"
    /\ UNCHANGED <<pair, call, cleanup, i, commit, errKind, errStep, gitpath, disk, depth,
                   coFails, calls, emitted, hist>>

ConsumerStops_Prunes(exists) == delete(exists)

\* What the worktree directory is when the suspended generator is dropped:
\* the loop has no finally clause, nothing of fetch_items runs again.
ConsumerStops_disk(exists) == exists

\* The consumer stops pulling records and drops the suspended generator.
ConsumerStops ==
    /\ pc = "suspended"
    /\ pc' = "abandoned"
    /\ wtExists' = ConsumerStops_disk(wtExists)
    /\ wtFiles' = IF wtExists' THEN wtFiles ELSE <<>>
    /\ head' = IF wtExists' THEN head ELSE "none"
    /\ UNCHANGED <<pair, call, cleanup, errKind, errStep, gitpath, registered, depth,
                   loopv, hist>>

\* `self.graalRepo.prune()` after the loop.
FinalPrune ==
    /\ pc = "final_prune"
    /\ \E ok \in BOOLEAN :
         /\ prune(ok)
         /\ IF prune_raised(ok) = "none"
            THEN /\ pc' = "done"
                 /\ UNCHANGED <<errKind, errStep>>
            ELSE Raise(prune_raised(ok), "prune")
    /\ UNCHANGED <<pair, call, cleanup, gitpath, depth, loopv, setupPrunes, wtCreated,
                   skipped, coAttempted, analysed>>

\* The caller's explicit cleanup once the run is over: graalRepo.prune().
CallerPrune ==
    /\ pc \in {"done", "raised", "abandoned"}
    /\ ~cleanup.called
    /\ wtCreated > 0
    /\ \E ok \in BOOLEAN :
         /\ prune(ok)
         /\ cleanup' = [called |-> TRUE, git |-> ok, raised |-> prune_raised(ok)]
    /\ UNCHANGED <<pair, call, pc, errKind, errStep, gitpath, depth, loopv,
                   setupPrunes, wtCreated, skipped, coAttempted, analysed>>

Next ==
    \/ Fetch
    \/ CreateGraalRepository
    \/ WorktreeAdd
    \/ WorktreeRecursionLimit
    \/ WorktreePrune
    \/ NextCommit
    \/ Exhausted
    \/ FilterCommit
    \/ Checkout
    \/ Analyze
    \/ Post
    \/ Yield
    \/ Resume
    \/ ConsumerStops
    \/ FinalPrune
    \/ CallerPrune

Spec == Init /\ [][Next]_vars

\* ------------------------------------- direct calls of FileAnalyzer.analyze
\* The characters of the paths a caller passes, and the paths themselves.
PathChars == {"c", "p", "y", DOT, SEP}

ArgPaths == UNION { [1..n -> PathChars] : n \in 1..MaxPathLen }

\* No pipeline run is under way: nothing taken, nothing on disk, no history.
NoRun ==
    /\ commits = <<>>
    /\ i = 0
    /\ commit = NoCommit
    /\ scope = NoPaths
    /\ cleanup = NoCleanup
    /\ gitpath = "absent"
    /\ wtExists = FALSE
    /\ registered = FALSE
    /\ stale = FALSE
    /\ head = "none"
    /\ wtFiles = <<>>
    /\ depth = 0
    /\ coFails = 0
    /\ emitted = <<>>
    /\ icommits = 0
    /\ pruneCalls = 0
    /\ setupPrunes = 0
    /\ wtCreated = 0
    /\ skipped = {}
    /\ coAttempted = {}
    /\ analysed = {}

InitAnalyzer ==
    /\ NoRun
    /\ NoPair
    /\ entry = "FileAnalyzer.analyze"
    /\ pc = "call"
    /\ calls = <<>>
    /\ errKind = "none"
    /\ errStep = "none"

\* file_analyzer.analyze(file_path), called by a caller of its own with any
\* path, for every answer of Cloc and Lizard.
DirectAnalyze ==
    /\ pc = "call"
    /\ \E file_path \in ArgPaths, cl \in ClocOutcomes, lz \in LizardOutcomes :
         LET r == analyze(file_path, cl, lz) IN
         /\ calls' = <<CallEntry(file_path, cl, lz, r)>>
         /\ IF r.raised = "none"
            THEN /\ pc' = "returned"
                 /\ UNCHANGED <<errKind, errStep>>
            ELSE Raise(r.raised, "analyze")
    /\ UNCHANGED <<pair, call, cleanup, gitpath, disk, depth, i, commit, coFails,
                   emitted, icommits, hist>>

NextAnalyzer == DirectAnalyze

SpecAnalyzer == InitAnalyzer /\ [][NextAnalyzer]_vars

\* ------------------------------------------- two runs, one worktree base
single == <<call, cleanup, pc, errKind, errStep, gitpath, disk, depth, loopv,
            hist>>

\* The worktree path of run r.
PathOf(r) == Graal_worktreepath(WorktreeBase, runs[r].gitpath)

InitTwoRuns ==
    /\ NoRun
    /\ entry = "Graal.fetch"
    /\ pc = "pair"
    /\ calls = <<>>
    /\ errKind = "none"
    /\ errStep = "none"
    /\ \E g1, g2 \in GitPaths :
         /\ g1 # g2
         /\ runs = [r \in Runs |->
                      [gitpath |-> IF r = 1 THEN g1 ELSE g2, pc |-> "start",
                       k |-> 0, head |-> "none"]]
    /\ wt = [p \in WtPaths |-> Absent]

\* __create_graal_repository of run r: rmtree of whatever is at its path.
RunRmtree(r) ==
    /\ runs[r].pc = "start"
    /\ wt' = [wt EXCEPT ![PathOf(r)] = Absent]
    /\ runs' = [runs EXCEPT ![r].pc = "add"]
    /\ UNCHANGED single

\* worktree() of run r: 'git worktree add' makes the directory; it fails on
\* a path that exists, and then prune() deletes the path before the retry.
RunAdd(r) ==
    /\ runs[r].pc = "add"
    /\ IF wt[PathOf(r)].owner = 0
       THEN /\ wt' = [wt EXCEPT ![PathOf(r)] = [owner |-> r, head |-> "master"]]
            /\ runs' = [runs EXCEPT ![r].pc = "loop", ![r].head = "master"]
       ELSE /\ wt' = [wt EXCEPT ![PathOf(r)] = Absent]
            /\ UNCHANGED runs
    /\ UNCHANGED single

\* checkout() of run r for its next commit: 'git checkout' in its worktree
\* path.  It fails when nothing is there; in a working tree another run made
\* it succeeds when that clone holds the commit too.
RunCheckout(r) ==
    /\ runs[r].pc = "loop"
    /\ runs[r].k < MaxCommits
    /\ \E ok \in BOOLEAN :
         IF wt[PathOf(r)].owner # 0 /\ (wt[PathOf(r)].owner = r \/ ok)
         THEN /\ wt' = [wt EXCEPT ![PathOf(r)].head = Hashes[runs[r].k + 1]]
              /\ runs' = [runs EXCEPT ![r].k = runs[r].k + 1,
                                      ![r].head = Hashes[runs[r].k + 1]]
         ELSE /\ runs' = [runs EXCEPT ![r].pc = "raised"]
              /\ UNCHANGED wt
    /\ UNCHANGED single

\* prune() of run r after its loop: delete of whatever is at its path.
RunPrune(r) ==
    /\ runs[r].pc = "loop"
    /\ wt' = [wt EXCEPT ![PathOf(r)] = Absent]
    /\ runs' = [runs EXCEPT ![r].pc = "done"]
    /\ UNCHANGED single

NextTwoRuns ==
    \E r \in Runs :
        \/ RunRmtree(r)
        \/ RunAdd(r)
        \/ RunCheckout(r)
        \/ RunPrune(r)

SpecTwoRuns == InitTwoRuns /\ [][NextTwoRuns]_vars

\* ------------------------------------------------------------------- claims
Range(s) == {s[k] : k \in DOMAIN s}

NotSkipped(c) == c \notin skipped

RemovedKeys == {"Author", "Commit", "files", "parents", "refs"}

CommitSteps == {"filter", "checkout", "analyze", "post"}

\* prune() calls made by fetch_items itself (not by worktree's retries)
LoopPrunes == pruneCalls - setupPrunes - (IF cleanup.called THEN 1 ELSE 0)

\* C1: whenever an exception raised while processing a commit (by the filter,
\* the checkout, the analysis hook or the post-process hook) reaches the
\* consumer, prune() has been called exactly once by then and the worktree
\* directory no longer exists.
C1_PrunedBeforeErrorPropagates ==
    (pc = "raised" /\ errStep \in CommitSteps)
        => (LoopPrunes = 1 /\ ~wtExists)

\* C2 as stated: in a run consumed to exhaustion without error the working
\* tree is created exactly once, prune() is called exactly once in the whole
\* run, and at the end the worktree directory does not exist.
C2_PrunedExactlyOnceInRun ==
    pc = "done" => (wtCreated = 1 /\ pruneCalls = 1 /\ ~wtExists)

\* C2 amended: the working tree is created (one successful 'git worktree
\* add') exactly once before the first commit is taken and stays in place
\* while commits are processed; fetch_items calls prune() exactly once, only
\* after the source is exhausted and the last record has been yielded; every
\* other prune() call is one worktree() made while retrying a failed add,
\* before the first commit; when the run ends the directory does not exist.
C2_CreatedOncePrunedOnceAtEnd ==
    /\ (i > 0 \/ pc \in {"next", "final_prune", "done"}) => wtCreated = 1
    /\ pc \in ({"next", "yield", "suspended", "final_prune"} \cup CommitSteps)
          => (wtExists /\ LoopPrunes = 0)
    /\ (pc \in {"fetch", "start", "worktree", "wt_prune"}
          \/ errStep \in {"fetch", "create"})
          => (i = 0 /\ emitted = <<>>)
    /\ LoopPrunes > 0 => (i = Len(commits) /\ Len(emitted) = icommits)
    /\ pc = "done"
          => (wtCreated = 1 /\ LoopPrunes = 1 /\ ~wtExists)

C2_Witness ==
    pc = "done" /\ Len(emitted) >= 2 /\ setupPrunes >= 1 /\ LoopPrunes = 1

\* C3: a commit the filter returns true for is never checked out, never
\* analysed and never emitted, it is never the commit a run fails at, and the
\* loop goes on to take the next commit.
C3_FilteredCommitsUntouched ==
    /\ skipped \cap (coAttempted \cup analysed \cup Range(emitted)) = {}
    /\ commit["commit"] \in skipped
          => (/\ pc \in {"next", "final_prune", "done", "raised"}
              /\ pc = "raised" => errStep = "prune")

C3_Witness ==
    /\ pc = "done"
    /\ \E a, b \in 1..Len(commits) :
         /\ a < b
         /\ commits[a] \in skipped
         /\ commits[b] \in Range(emitted)
         /\ commits[b] \in coAttempted

\* C4: a checkout whose first attempt fails and whose second attempt would
\* succeed is retried once: it never surfaces as an error to the consumer.
C4_TransientCheckoutFailureInvisible ==
    (pc = "raised" /\ errStep = "checkout") => coFails # 1

\* C5: when the checkout of a commit fails twice in a row the run raises a
\* fatal error, no record is emitted for that commit, and the worktree
\* directory no longer exists afterwards.
C5_FatalCheckoutLeavesNoWorktree ==
    (pc = "raised" /\ errStep = "checkout" /\ coFails >= 2)
        => (/\ errKind = "RepositoryError"
            /\ commit["commit"] \notin Range(emitted)
            /\ ~wtExists)

\* C6: while the pipeline analyses the files of a commit, the working tree
\* exists and is checked out at that commit (its checkout has completed);
\* and when a checkout is about to start, every commit checked out before
\* has had its analysis finished.
C6_AnalysisOnCheckedOutCommit ==
    /\ pc = "analyze"
          => (/\ wtExists
              /\ head = commit["commit"]
              /\ commit["commit"] \in coAttempted
              /\ commit["commit"] \notin analysed)
    /\ pc = "checkout" => coAttempted \subseteq analysed

C6_Witness ==
    /\ pc = "analyze"
    /\ Len(emitted) >= 1
    /\ head = commit["commit"]
    /\ head # emitted[Len(emitted)]

\* C7: in a run without error the emitted records are exactly the commits of
\* the source the filter returned false for, each once, in source order.
C7_EmittedAreUnfilteredInOrder ==
    pc = "done" => emitted = SelectSeq(commits, NotSkipped)

C7_Witness ==
    /\ pc = "done"
    /\ Len(emitted) >= 2
    /\ skipped # {}
    /\ emitted[1] = "c2"

\* C8: when Lizard fails on a file whose extension is in the allow-list,
\* FileAnalyzer.analyze returns Cloc's result and the run does not abort
\* because of it.
C8_DeepFailureFallsBack ==
    /\ \A k \in DOMAIN calls :
         (calls[k].deep /\ ~calls[k].liz.ok)
            => (calls[k].raised = "none" /\ calls[k].out = calls[k].cloc.res)
    /\ ~(pc = "raised" /\ errKind = "DeepAnalysisError")

\* the file's extension is one of the allow-list (stated on the path itself)
ExtInAllowList(path) ==
    \E e \in ALLOWED_EXTENSIONS : path = e \/ endswith(path, <<DOT>> \o e)

ComplexityKeys ==
    {"ccn", "tokens", "avg_ccn", "avg_loc", "avg_tokens", "funs", "funs_data"}

\* C9: for a file whose extension is in the allow-list and whose deep
\* analysis succeeds, the result has blanks and comments equal to Cloc's
\* values, and loc and every complexity field equal to Lizard's values
\* (also when the two report different loc), and no other key.
C9_MergeTakesBlanksCommentsFromCloc ==
    \A k \in DOMAIN calls :
        LET e == calls[k] IN
        (ExtInAllowList(e.path) /\ e.cloc.ok /\ e.liz.ok)
            => (/\ e.deep
                /\ e.raised = "none"
                /\ DOMAIN e.out = DOMAIN e.liz.res \cup {"blanks", "comments"}
                /\ e.out["blanks"] = e.cloc.res["blanks"]
                /\ e.out["comments"] = e.cloc.res["comments"]
                /\ \A key \in DOMAIN e.liz.res \ {"blanks", "comments"} :
                       e.out[key] = e.liz.res[key])

C9_Witness ==
    /\ pc = "yield"
    /\ \E k \in DOMAIN calls :
         /\ calls[k].deep
         /\ calls[k].liz.ok
         /\ "blanks" \in DOMAIN calls[k].liz.res
         /\ calls[k].liz.res["blanks"] # calls[k].cloc.res["blanks"]
         /\ calls[k].out["loc"] # calls[k].cloc.res["loc"]
         /\ commit["analysis"][k]["loc"] = calls[k].liz.res["loc"]

\* C10: for a file whose extension is not in the allow-list Lizard is never
\* invoked and the result is Cloc's result unchanged: exactly Cloc's keys
\* and no complexity key.
C10_OutsideAllowListUniversalOnly ==
    \A k \in DOMAIN calls :
        LET e == calls[k] IN
        (~ExtInAllowList(e.path) /\ e.cloc.ok)
            => (/\ ~e.deep
                /\ e.raised = "none"
                /\ e.out = e.cloc.res
                /\ DOMAIN e.out = {"blanks", "comments", "loc"}
                /\ DOMAIN e.out \cap ComplexityKeys = {})

C10_Witness ==
    /\ pc = "yield"
    /\ Len(calls) = 2
    /\ calls[1].deep
    /\ ~calls[2].deep
    /\ calls[2].liz.ok
    /\ endswith(calls[2].path, <<"p", "n", "g">>)
    /\ commit["analysis"][2]["loc"] = calls[2].cloc.res["loc"]

\* C11: every record handed to the consumer carries the analysis list made
\* for its commit (one entry per analyzed file, holding what the analyzer
\* returned) and none of the keys Author, Commit, files, parents, refs; every
\* other field is as the commit source produced it.
C11_EmittedRecordShape ==
    pc = "suspended" =>
        LET src == CommitItem(commits[i])
            kept == DOMAIN src \ RemovedKeys
        IN  /\ DOMAIN commit = kept \cup {"analysis"}
            /\ \A key \in kept : commit[key] = src[key]
            /\ Len(commit["analysis"]) = Len(calls)
            /\ \A k \in DOMAIN calls :
                 \A key \in DOMAIN calls[k].out :
                    commit["analysis"][k][key] = calls[k].out[key]

C11_Witness ==
    /\ pc = "suspended"
    /\ Len(emitted) = 2
    /\ Len(commit["analysis"]) = 2
    /\ commit["message"] = "message"

\* C12: a prune() call made while the worktree directory is absent raises
\* nothing of its own (when its 'git worktree prune' succeeds the call
\* returns) and leaves the directory absent, the clone without a registration
\* of the working tree, and everything else on disk as it was; a prune()
\* that finds no registration either changes nothing on disk at all.
C12_PruneOfAbsentTreeIsNoOp ==
    [][ (pruneCalls' = pruneCalls + 1 /\ ~wtExists)
          => (/\ ~wtExists'
              /\ wtFiles' = wtFiles
              /\ head' = head
              /\ (pc # "raised" /\ pc' = "raised") => errKind' = "RepositoryError"
              /\ (cleanup'.called /\ ~cleanup.called)
                    => (/\ cleanup'.raised \in {"none", "RepositoryError"}
                        /\ cleanup'.git => (cleanup'.raised = "none" /\ ~registered'))
              /\ ~registered => disk' = disk) ]_vars

\* a second prune() right after the first, successful one of fetch_items
C12_Witness ==
    /\ pc = "done"
    /\ cleanup.called
    /\ cleanup.git
    /\ cleanup.raised = "none"
    /\ pruneCalls >= 2
    /\ ~wtExists
    /\ ~registered

\* C13: a fetch that is given a path scope hands that scope to both hooks for
\* every commit: the call is carried out (it is not rejected before the
\* first commit is taken) and each hook call of the run receives the scope.
C13_ScopeReachesHooks ==
    Len(scope) > 0
        => (/\ ~(pc = "raised" /\ errStep = "fetch")
            /\ pc \in CommitSteps => HookPaths = scope)

\* C14: the analysis list of an emitted record has one entry for each file of
\* the snapshot that the scope selects (every file when the scope is empty)
\* and no other entry.
C14_OneEntryPerSelectedFile ==
    pc = "suspended" =>
        LET selected == { rel \in Range(wtFiles) :
                            Len(scope) > 0 =>
                                \E j \in 1..Len(scope) : endswith(rel, scope[j]) }
            entryOf(rel) == { k \in DOMAIN commit["analysis"] :
                                endswith(commit["analysis"][k]["file_path"], rel) }
        IN  /\ \A rel \in selected : Cardinality(entryOf(rel)) = 1
            /\ Len(commit["analysis"]) = Cardinality(selected)

\* C15: in a run with a non-empty path scope every commit the filter did not
\* skip is emitted, once the run is over.
C15_ScopedCommitsEmitted ==
    (Len(scope) > 0 /\ pc \in {"done", "raised"})
        => \A k \in DOMAIN commits :
              commits[k] \notin skipped => commits[k] \in Range(emitted)

\* file_path of the entries of the record's analysis list, in order
FilePaths ==
    [k \in DOMAIN commit["analysis"] |-> commit["analysis"][k]["file_path"]]

\* the path the walk gives the j-th file of the working tree
Walked(j) == WorktreePath \o <<SEP>> \o wtFiles[j]

\* C16 as stated: every entry of an emitted analysis list has a file_path
\* that is the file's path relative to the snapshot root, without the
\* worktree directory, and the entries are in file-walk order.
C16_FilePathRelativeToRoot ==
    pc = "suspended" =>
        /\ \A k \in DOMAIN FilePaths : \E j \in DOMAIN wtFiles : FilePaths[k] = wtFiles[j]
        /\ \A a, b \in DOMAIN FilePaths :
              a < b => \E x, y \in DOMAIN wtFiles :
                          x < y /\ FilePaths[a] = wtFiles[x] /\ FilePaths[b] = wtFiles[y]

\* C16 amended: every entry of an emitted analysis list has as file_path the
\* path the file walk gave for a file of the snapshot, which begins with the
\* worktree directory (worktree path, separator, path relative to the
\* snapshot root), and the entries are in file-walk order.
C16_FilePathAsWalkedInOrder ==
    pc = "suspended" =>
        /\ \A k \in DOMAIN FilePaths : \E j \in DOMAIN wtFiles : FilePaths[k] = Walked(j)
        /\ \A a, b \in DOMAIN FilePaths :
              a < b => \E x, y \in DOMAIN wtFiles :
                          x < y /\ FilePaths[a] = Walked(x) /\ FilePaths[b] = Walked(y)

C16_Witness ==
    /\ pc = "suspended"
    /\ Len(FilePaths) = 2
    /\ FilePaths[1] = WorktreePath \o <<SEP>> \o <<"i", ".", "p", "n", "g">>
    /\ FilePaths[2] = WorktreePath \o <<SEP>> \o <<"a", ".", "p", "y">>

\* C17: every entry of an emitted analysis list has a file_path equal to
\* os.path.join(worktreepath, p) for the path p, inside the repository, of a
\* file of the commit's snapshot.
C17_FilePathIsWorktreeJoin ==
    pc = "suspended" =>
        \A k \in DOMAIN commit["analysis"] :
            \E rel \in Range(wtFiles) :
                commit["analysis"][k]["file_path"] = os_path_join(WorktreePath, rel)

C17_Witness ==
    /\ pc = "suspended"
    /\ Len(commit["analysis"]) = 1
    /\ wtFiles = << <<"a", ".", "p", "y">> >>
    /\ commit["analysis"][1]["file_path"] = <<"/", "w", "/", "a", ".", "p", "y">>

\* C18: after a successful checkout the files enumerated under the worktree
\* directory are exactly the files of the checked-out tree.
C18_EnumerationMatchesTree ==
    pc = "analyze" =>
        Range(files(WorktreePath, wtExists, wtFiles))
            = { WorktreePath \o <<SEP>> \o wtFiles[j] : j \in DOMAIN wtFiles }

\* C19: when a run fails while processing the k-th commit of the source, the
\* consumer holds exactly the records of the commits before k that the
\* filter did not skip, in order, and no commit after k has been skipped by
\* the filter, checked out, analysed or emitted; the caller's cleanup after
\* the failure changes none of this.
C19_FailureKeepsEarlierRecords ==
    (pc = "raised" /\ errStep \in CommitSteps) =>
        /\ i \in DOMAIN commits
        /\ commit["commit"] = commits[i]
        /\ emitted = SelectSeq(SubSeq(commits, 1, i - 1), NotSkipped)
        /\ \A j \in DOMAIN commits :
              j > i => commits[j] \notin
                         (skipped \cup coAttempted \cup analysed \cup Range(emitted))
        /\ commits[i] \notin Range(emitted)

C19_Witness ==
    /\ pc = "raised"
    /\ errStep = "checkout"
    /\ i = 2
    /\ Len(commits) = 3
    /\ Len(emitted) = 1
    /\ cleanup.called

\* C20: when the consumer stops pulling records while the generator is
\* suspended at a yield, fetch_items calls no prune: until the caller's own
\* prune() the working tree stays on disk, registered, checked out at the
\* commit of the last record yielded; the caller's prune() is what removes it.
C20_AbandonedRunKeepsWorktree ==
    pc = "abandoned" =>
        /\ LoopPrunes = 0
        /\ Len(emitted) = icommits + 1
        /\ ~cleanup.called
              => (/\ wtExists
                  /\ registered
                  /\ head = emitted[Len(emitted)]
                  /\ head = commits[i])
        /\ cleanup.called => ~wtExists

C20_Witness ==
    /\ pc = "abandoned"
    /\ ~cleanup.called
    /\ i = 2
    /\ Len(commits) = 3
    /\ Len(emitted) = 2
    /\ wtExists

\* C21: a failure of a repository-clone operation (obtaining the clone,
\* creating the working tree, checkout, prune) reaches the caller as a
\* RepositoryError and as no other kind of exception.
C21_OnlyRepositoryErrorEscapes ==
    /\ (pc = "raised" /\ errStep \in {"create", "checkout", "prune"})
          => errKind = "RepositoryError"
    /\ cleanup.raised \in {"none", "RepositoryError"}

\* C22: for every commit of the source the filter hook is called with three
\* arguments: the commit, the commit's 0-based position in the source
\* sequence, and the path scope of the run.
C22_FilterGetsCommitIndexScope ==
    pc = "filter" =>
        /\ Len(FilterCallArgs) = 3
        /\ FilterCallArgs[1] = commit
        /\ FilterCallArgs[2] = i - 1
        /\ FilterCallArgs[3] = scope

\* C23: a file path without a dot has no extension and is never passed to
\* the deep analyzer: FileAnalyzer.analyze returns Cloc's result unchanged
\* for it, also when the whole path is an allow-listed word.
C23_DotFreeIsUniversalOnly ==
    \A k \in DOMAIN calls :
        LET e == calls[k] IN
        ((\A n \in DOMAIN e.path : e.path[n] # DOT) /\ e.cloc.ok)
            => (/\ ~e.deep
                /\ e.out = e.cloc.res)

\* C24: whatever is at the worktree path when the run starts is removed
\* before the first 'git worktree add', so that once the working tree has been
\* created, the directory holds the fresh checkout of master, registered in
\* the clone, and nothing of what was there before, whether or not the path
\* existed at the start (as it does when the tree is created a second time).
C24_StaleTreeNeverReused ==
    /\ pc \in {"worktree", "wt_prune"}
          => (~wtExists /\ wtFiles = <<>> /\ head = "none")
    /\ (pc = "next" /\ i = 0)
          => (wtExists /\ registered /\ head = "master" /\ wtCreated = 1)
    /\ wtCreated > 0 => head # "stale"

C24_Witness ==
    /\ pc = "next"
    /\ i = 0
    /\ stale
    /\ setupPrunes = 1
    /\ wtExists
    /\ head = "master"

\* the kinds of error processing a commit raises
ProcessingErrors ==
    {"HookError", "RepositoryError", "AnalysisIOError", "DeepAnalysisError"}

C26_WorktreeEndsInRepositoryError ==
    (pc = "raised" /\ errStep = "create" /\ depth = RecursionLimit)
        => errKind = "RepositoryError"

\* C27: of two runs over different clones that share the worktree base
\* directory, neither touches the other's working tree: while a run is
\* between the creation of its working tree and its own prune, the directory
\* at its worktree path is the one it created, checked out where it left it.
C27_OwnWorktreeUntouched ==
    \A r \in Runs :
        runs[r].pc = "loop"
            => wt[PathOf(r)] = [owner |-> r, head |-> runs[r].head]

====
